---- MODULE Spec2Model ----
(***************************************************************************)
(* The Celery dispatch loop core_celery_execution_loop of                  *)
(* celery_instance/core_execution_loop_copy.py, with the collaborators it  *)
(* drives: the active-execution tracker returned by execution_plan.start,  *)
(* and the asynchronous result handles returned by step_execution_fn.      *)
(*                                                                         *)
(* The loop is a generator; every action below is one stretch of its body  *)
(* and pc is the position it is suspended at.  The remote workers are seen *)
(* only through result.ready() and result.get().                           *)
(***************************************************************************)
EXTENDS Integers, Sequences, FiniteSets, TLC

VARIABLES
    \* ---- the inputs of one run (fixed by Init) ----
    deps,             \* execution_plan: step key -> set of upstream step keys
    step_tags,        \* step.tags[DAGSTER_CELERY_STEP_PRIORITY_TAG] per step
    run_tag,          \* the run tag DAGSTER_CELERY_RUN_PRIORITY_TAG
    verify_mode,      \* how verify_complete treats a step no event made terminal
    \* ---- the locals of core_celery_execution_loop ----
    pc,               \* position in the loop body
    stopping,         \* line 65
    step_results,     \* line 57: insertion-ordered dict, a sequence of [key, h]
    step_errors,      \* line 58: keys of the dict of recorded errors
    scan,             \* the sorted items the for loop of line 79 still has to visit
    results_to_pop,   \* line 78
    to_submit,        \* the steps the for loop of line 127 still has to visit
    \* ---- active_execution (the tracker) ----
    ae_state,         \* step key -> state
    ae_plan_events,   \* skip events not yet handed out by plan_events_iterator
    ae_interrupted,   \* set by mark_interrupted
    \* ---- the task queue ----
    handles,          \* sequence of handles ever returned by step_execution_fn
    \* ---- observation ----
    emitted,          \* events yielded to the caller, in order
    interrupts,       \* times check_for_interrupts has returned True
    tick,             \* what has happened in the current loop iteration
    outcome           \* how the generator ended

vars == <<deps, step_tags, run_tag, verify_mode, pc, stopping, step_results,
          step_errors, scan, results_to_pop, to_submit, ae_state,
          ae_plan_events, ae_interrupted, handles, emitted, interrupts, tick,
          outcome>>

planVars == <<deps, step_tags, run_tag, verify_mode>>
trackerVars == <<ae_state, ae_plan_events, ae_interrupted>>

(***************************************************************************)
(* Bounds of the model.                                                    *)
(***************************************************************************)
\* check_for_interrupts returns True at most this many times in a run
MaxInterrupts == 2

\* the step keys of the plan, in plan order
Steps == 1 .. 3

(***************************************************************************)
(* Tags are strings; a string is modelled as a tuple of characters and an  *)
(* absent tag as the record [has |-> FALSE].                               *)
(***************************************************************************)
Tag(s) == [has |-> TRUE, val |-> s]
NoTag == [has |-> FALSE, val |-> <<>>]

Digits == {"0", "1", "2", "3", "4", "5", "6", "7", "8", "9"}

DigitVal(c) ==
    CASE c = "0" -> 0 [] c = "1" -> 1 [] c = "2" -> 2 [] c = "3" -> 3
      [] c = "4" -> 4 [] c = "5" -> 5 [] c = "6" -> 6 [] c = "7" -> 7
      [] c = "8" -> 8 [] c = "9" -> 9

RECURSIVE DigitsVal(_)
DigitsVal(s) ==
    IF s = <<>> THEN 0
    ELSE 10 * DigitsVal(SubSeq(s, 1, Len(s) - 1)) + DigitVal(s[Len(s)])

AllDigits(s) == Len(s) > 0 /\ \A i \in 1 .. Len(s) : s[i] \in Digits

\* Python's int(str): an optional sign and decimal digits, ValueError otherwise
PyInt(s) ==
    IF AllDigits(s) THEN [ok |-> TRUE, val |-> DigitsVal(s)]
    ELSE IF Len(s) > 1 /\ s[1] = "-" /\ AllDigits(Tail(s))
         THEN [ok |-> TRUE, val |-> 0 - DigitsVal(Tail(s))]
    ELSE IF Len(s) > 1 /\ s[1] = "+" /\ AllDigits(Tail(s))
         THEN [ok |-> TRUE, val |-> DigitsVal(Tail(s))]
    ELSE [ok |-> FALSE, val |-> 0]

\* celery_instance.dagster_celery_config.task_default_priority
task_default_priority == 0

\* faulty variant of get_run_priority: the tag is tested with str.isdigit()
\* instead of being handed to int(), so a signed value counts as unparseable
get_run_priority_isdigit(tag) ==
    IF tag.has /\ AllDigits(tag.val) THEN DigitsVal(tag.val) ELSE 0

\* _get_run_priority, lines 187-193
get_run_priority(tag) ==
    IF ~tag.has THEN 0
    ELSE IF PyInt(tag.val).ok THEN PyInt(tag.val).val
    ELSE 0

\* the step-level part of lines 49 and 182
step_priority(tag) ==
    IF tag.has THEN PyInt(tag.val).val ELSE task_default_priority

\* faulty variant of priority_for_step: the sign of the key is lost
priority_for_step_flipped(s) ==
    step_priority(step_tags[s]) + get_run_priority(run_tag)

\* priority_for_step, lines 48-51 (the sort key handed to the tracker)
priority_for_step(s) ==
    (-1) * step_priority(step_tags[s]) + (-1) * get_run_priority(run_tag)

\* priority_for_key, lines 52-54
priority_for_key(k) == priority_for_step(k)

(***************************************************************************)
(* Python's sorted(seq, key=...): a stable insertion sort.                 *)
(***************************************************************************)
RECURSIVE InsertSorted(_, _, _)
\* x placed after every element whose key is <= its own (stability)
InsertSorted(x, sorted, key) ==
    IF sorted = <<>> THEN <<x>>
    ELSE IF key[x] < key[Head(sorted)] THEN <<x>> \o sorted
    ELSE <<Head(sorted)>> \o InsertSorted(x, Tail(sorted), key)

RECURSIVE PySorted(_, _)
\* seq is a sequence of step keys, key a function from step keys to integers
PySorted(seq, key) ==
    IF seq = <<>> THEN <<>>
    ELSE InsertSorted(seq[Len(seq)],
                      PySorted(SubSeq(seq, 1, Len(seq) - 1), key), key)

Range(seq) == {seq[i] : i \in 1 .. Len(seq)}

RECURSIVE SetToSeq(_)
\* the elements of a set of integers in increasing order (plan order)
SetToSeq(S) ==
    IF S = {} THEN <<>>
    ELSE LET m == CHOOSE x \in S : \A y \in S : x <= y
         IN  <<m>> \o SetToSeq(S \ {m})

Last(seq) == seq[Len(seq)]

(***************************************************************************)
(* The inputs a run is started with.                                       *)
(***************************************************************************)
\* the dependency graphs over Steps whose edges go from lower to higher keys
Plans == {d \in [Steps -> SUBSET Steps] : \A s \in Steps : \A u \in d[s] : u < s}

\* the priority tags of a run: the step tags in plan order, and the run tag
TagCases ==
    { [steps |-> <<Tag(<<"5">>), Tag(<<"1">>), Tag(<<"1", "0">>)>>,
       run |-> NoTag],
      [steps |-> <<Tag(<<"1">>), Tag(<<"1">>), Tag(<<"1">>)>>,
       run |-> Tag(<<"2">>)],
      [steps |-> <<Tag(<<"1", "0">>), Tag(<<"5">>), Tag(<<"5">>)>>,
       run |-> Tag(<<"h", "i">>)],
      [steps |-> <<NoTag, Tag(<<"5">>), Tag(<<"1">>)>>,
       run |-> Tag(<<"-", "3">>)],
      [steps |-> <<Tag(<<"1">>), Tag(<<"5">>), Tag(<<"1", "0">>)>>,
       run |-> NoTag] }

\* what verify_complete does with a step that no event made terminal: raise
\* the consistency failure, force the step to failed, or leave it as it is
VerifyModes == {"raise", "mark_failed", "leave"}

(***************************************************************************)
(* The active-execution tracker (execution_plan.start, line 60).  Its code *)
(* is the orchestration library's, not this repository's; it is modelled   *)
(* from its contract in the design (section 4.1): handle_event makes the   *)
(* step succeeded or failed and cascades skips to the dependents, the      *)
(* skip events wait in plan_events until plan_events_iterator hands them   *)
(* out, and get_steps_to_execute hands out the ready steps, ordered by the *)
(* sort_key_fn given at line 62, and counts them in-flight from then on.   *)
(* The design leaves open what becomes of a step whose handle settled      *)
(* without a terminal event (section 9), so verify_complete is modelled    *)
(* for each resolution it names (verify_mode).                             *)
(***************************************************************************)
Terminal == {"succeeded", "failed", "skipped"}

StepStates == {"not_ready", "ready", "in_flight"} \cup Terminal

RECURSIVE ReevaluateFrom(_, _, _, _)
\* one pass over the steps in plan order from step s on: a not-ready step with
\* a failed or skipped upstream becomes skipped, one whose upstreams all
\* succeeded becomes ready unless the tracker is interrupted
ReevaluateFrom(s, st, skipped, interrupted) ==
    IF s \notin Steps THEN [state |-> st, skipped |-> skipped]
    ELSE IF st[s] # "not_ready"
         THEN ReevaluateFrom(s + 1, st, skipped, interrupted)
    ELSE IF \E u \in deps[s] : st[u] \in {"failed", "skipped"}
         THEN ReevaluateFrom(s + 1, [st EXCEPT ![s] = "skipped"],
                             Append(skipped, s), interrupted)
    ELSE IF ~interrupted /\ \A u \in deps[s] : st[u] = "succeeded"
         THEN ReevaluateFrom(s + 1, [st EXCEPT ![s] = "ready"], skipped,
                             interrupted)
    ELSE ReevaluateFrom(s + 1, st, skipped, interrupted)

Reevaluate(st, interrupted) == ReevaluateFrom(1, st, <<>>, interrupted)

\* the state of the tracker when execution_plan.start returns
start_state(d) ==
    [s \in Steps |-> IF d[s] = {} THEN "ready" ELSE "not_ready"]

\* active_execution.is_complete
is_complete == \A s \in Steps : ae_state[s] \in Terminal

\* active_execution.handle_event(event): the new [state, plan_events]
handle_event(ev) ==
    LET marked == [ae_state EXCEPT ![ev.key] =
                       IF ev.type = "step_success" THEN "succeeded"
                       ELSE "failed"]
        r == Reevaluate(marked, ae_interrupted)
    IN  [state |-> r.state, plan_events |-> ae_plan_events \o r.skipped]

\* active_execution.verify_complete(step_key): the new [state, plan_events,
\* raised]
verify_complete(k) ==
    IF ae_state[k] \in Terminal \/ verify_mode = "leave"
    THEN [state |-> ae_state, plan_events |-> ae_plan_events,
          raised |-> FALSE]
    ELSE IF verify_mode = "raise"
    THEN [state |-> ae_state, plan_events |-> ae_plan_events,
          raised |-> TRUE]
    ELSE LET r == Reevaluate([ae_state EXCEPT ![k] = "failed"],
                             ae_interrupted)
         IN  [state |-> r.state,
              plan_events |-> ae_plan_events \o r.skipped,
              raised |-> FALSE]

\* active_execution.get_steps_to_execute(): the ready steps, by sort_key_fn
get_steps_to_execute ==
    PySorted(SetToSeq({s \in Steps : ae_state[s] = "ready"}),
             [s \in Steps |-> priority_for_step(s)])

\* the tracker's state once get_steps_to_execute has handed out `given`
handed_out(given) ==
    [s \in Steps |-> IF s \in Range(given) /\ ae_state[s] = "ready"
                     THEN "in_flight" ELSE ae_state[s]]

(***************************************************************************)
(* step_results, an insertion-ordered dict from step key to handle.        *)
(***************************************************************************)
DictKeys(d) == {d[i].key : i \in 1 .. Len(d)}

DictGet(d, k) == (CHOOSE i \in 1 .. Len(d) : d[i].key = k)

\* d[k] = h
DictSet(d, k, h) ==
    IF k \in DictKeys(d)
    THEN [i \in 1 .. Len(d) |-> IF d[i].key = k THEN [key |-> k, h |-> h]
                                ELSE d[i]]
    ELSE Append(d, [key |-> k, h |-> h])

\* faulty variant of DictDel: the entry stays in the dict
DictDel_kept(d, k) == d

\* del d[k]
DictDel(d, k) == SelectSeq(d, LAMBDA e : e.key # k)

\* sorted(step_results.items(), key=lambda x: priority_for_key(x[0])), line 79
sorted_results ==
    LET keys == [i \in 1 .. Len(step_results) |-> step_results[i].key]
        srt == PySorted(keys, [s \in Steps |-> priority_for_key(s)])
    IN  [i \in 1 .. Len(srt) |-> step_results[DictGet(step_results, srt[i])]]

(***************************************************************************)
(* Events yielded to the caller.                                           *)
(***************************************************************************)
Event(type, key) == [type |-> type, key |-> key]

NewTick == [started |-> FALSE, slept |-> FALSE, base |-> 0]

Init ==
    /\ deps \in Plans
    /\ \E c \in TagCases : step_tags = c.steps /\ run_tag = c.run
    /\ verify_mode \in VerifyModes
    /\ pc = "while"
    /\ stopping = FALSE
    /\ step_results = <<>>
    /\ step_errors = {}
    /\ scan = <<>>
    /\ results_to_pop = <<>>
    /\ to_submit = <<>>
    /\ ae_state = start_state(deps)
    /\ ae_plan_events = <<>>
    /\ ae_interrupted = FALSE
    /\ handles = <<>>
    /\ emitted = <<>>
    /\ interrupts = 0
    /\ tick = NewTick
    /\ outcome = [kind |-> "running", keys |-> {}]

Ended(kind, keys) ==
    /\ pc' = "end"
    /\ outcome' = [kind |-> kind, keys |-> keys]

(***************************************************************************)
(* Line 67: the loop condition.                                            *)
(***************************************************************************)
\* faulty variant of loop_condition: outstanding handles are not waited for
loop_condition_no_results == ~is_complete /\ ~stopping

\* faulty variant of loop_condition: draining still waits for completion
loop_condition_no_stopping == ~is_complete \/ step_results # <<>>

loop_condition ==
    (~is_complete /\ ~stopping) \/ step_results # <<>>

LoopTest ==
    /\ pc = "while"
    /\ IF loop_condition
       THEN /\ pc' = "interrupt"
            /\ tick' = [started |-> TRUE, slept |-> FALSE,
                        base |-> Len(handles)]
       ELSE /\ pc' = "after_loop"
            /\ tick' = tick
    /\ UNCHANGED <<planVars, trackerVars, stopping, step_results, step_errors,
                   scan, results_to_pop, to_submit, handles, emitted,
                   interrupts, outcome>>

(***************************************************************************)
(* Lines 68-81: the interrupt check, then the sorted snapshot of the       *)
(* outstanding handles the scan will walk.                                 *)
(***************************************************************************)
\* faulty variant of revoke_all: no handle is revoked
revoke_none == handles

\* result.revoke() on every value of step_results, lines 76-77
revoke_all ==
    [h \in 1 .. Len(handles) |->
        IF \E i \in 1 .. Len(step_results) : step_results[i].h = h
        THEN [handles[h] EXCEPT !.revokes = @ + 1]
        ELSE handles[h]]

CheckInterrupts ==
    /\ pc = "interrupt"
    /\ \E signalled \in BOOLEAN :
          /\ signalled => interrupts < MaxInterrupts
          /\ IF signalled
             THEN /\ emitted' = Append(emitted, Event("interrupted", 0))
                  /\ stopping' = TRUE
                  /\ ae_interrupted' = TRUE
                  /\ handles' = revoke_all
                  /\ interrupts' = interrupts + 1
             ELSE UNCHANGED <<emitted, stopping, ae_interrupted, handles,
                              interrupts>>
    /\ results_to_pop' = <<>>
    /\ scan' = sorted_results
    /\ pc' = "poll"
    /\ UNCHANGED <<planVars, ae_state, ae_plan_events, step_results,
                   step_errors, to_submit, tick, outcome>>

(***************************************************************************)
(* Lines 79-107: one pass of the for loop over the sorted snapshot.  What  *)
(* result.ready() answers is the remote side's choice: a pending task may  *)
(* still be pending, or have settled with one of the Outcomes; a settled   *)
(* handle is fetched at once (result.get()).                               *)
(***************************************************************************)
Outcomes == {"success", "failure", "revoked", "error"}

\* faulty variant of record_error: only the latest error is kept
record_error_last(k) == {k}

\* line 99: step_errors[step_key] = ...
record_error(k) == step_errors \cup {k}

\* faulty variant of step_events: the events fetched name the first step of
\* the plan, whichever step the handle belongs to
step_events_of_first(k, o) ==
    <<Event(IF o = "success" THEN "step_success" ELSE "step_failure", 1)>>

\* the events a normal result.get() returns for step k
step_events(k, o) ==
    <<Event(IF o = "success" THEN "step_success" ELSE "step_failure", k)>>

Poll(o) ==
    /\ pc = "poll"
    /\ scan # <<>>
    /\ LET k == Head(scan).key
           h == Head(scan).h
       IN  /\ handles[h].state = "pending"
           /\ scan' = Tail(scan)
           /\ IF o = "pending"
              THEN \* result.ready() is False
                   UNCHANGED <<handles, emitted, ae_state, ae_plan_events,
                               step_errors, results_to_pop>>
              ELSE /\ handles' = [handles EXCEPT ![h].state = o,
                                                 ![h].fetches = @ + 1]
                   /\ results_to_pop' = Append(results_to_pop, k)
                   /\ CASE o \in {"success", "failure"} ->
                             LET ev == step_events(k, o)[1]
                                 t == handle_event(ev)
                             IN  /\ emitted' = Append(emitted, ev)
                                 /\ ae_state' = t.state
                                 /\ ae_plan_events' = t.plan_events
                                 /\ UNCHANGED step_errors
                        [] o = "revoked" ->
                             /\ emitted' = Append(emitted, Event("revoked", k))
                             /\ UNCHANGED <<ae_state, ae_plan_events,
                                            step_errors>>
                        [] o = "error" ->
                             /\ step_errors' = record_error(k)
                             /\ UNCHANGED <<emitted, ae_state, ae_plan_events>>
    /\ UNCHANGED <<planVars, ae_interrupted, pc, stopping, step_results,
                   to_submit, interrupts, tick, outcome>>

PollResult == \E o \in Outcomes \cup {"pending"} : Poll(o)

PollDone ==
    /\ pc = "poll"
    /\ scan = <<>>
    /\ pc' = "pop"
    /\ UNCHANGED <<planVars, trackerVars, stopping, step_results, step_errors,
                   scan, results_to_pop, to_submit, handles, emitted,
                   interrupts, tick, outcome>>

(***************************************************************************)
(* Lines 109-112: settled handles leave step_results; verify_complete.     *)
(***************************************************************************)
PopResult ==
    /\ pc = "pop"
    /\ results_to_pop # <<>>
    /\ LET k == Head(results_to_pop)
       IN  /\ results_to_pop' = Tail(results_to_pop)
           /\ IF k \in DictKeys(step_results)
              THEN /\ step_results' = DictDel(step_results, k)
                   /\ ae_state' = verify_complete(k).state
                   /\ ae_plan_events' = verify_complete(k).plan_events
                   /\ IF verify_complete(k).raised
                      THEN Ended("raised_consistency", {k})
                      ELSE UNCHANGED <<pc, outcome>>
              ELSE UNCHANGED <<step_results, ae_state, ae_plan_events, pc,
                               outcome>>
    /\ UNCHANGED <<planVars, ae_interrupted, stopping, step_errors, scan,
                   to_submit, handles, emitted, interrupts, tick>>

PopDone ==
    /\ pc = "pop"
    /\ results_to_pop = <<>>
    /\ pc' = "plan_events"
    /\ UNCHANGED <<planVars, trackerVars, stopping, step_results, step_errors,
                   scan, results_to_pop, to_submit, handles, emitted,
                   interrupts, tick, outcome>>

(***************************************************************************)
(* Lines 114-127: the skip events are handed on; then either continue, or  *)
(* take the ready steps from the tracker, which moves them to in-flight.   *)
(***************************************************************************)
\* faulty variant of skip_submission: recorded errors do not stop submission
skip_submission_stopping_only == stopping

\* line 119
skip_submission == stopping \/ step_errors # {}

\* faulty variant of steps_to_submit: every step not yet handed out
steps_to_submit_all ==
    SetToSeq({s \in Steps : ae_state[s] \in {"not_ready", "ready"}})

\* faulty variant of steps_to_submit: steps in flight are taken again
steps_to_submit_again ==
    SetToSeq({s \in Steps : ae_state[s] \in {"ready", "in_flight"}})

\* line 127: what the submission loop iterates over
steps_to_submit == get_steps_to_execute

\* faulty variant of PlanEvents: the `continue` of line 120 comes before the
\* skip events are handed on
PlanEvents_continue_first ==
    /\ pc = "plan_events"
    /\ IF skip_submission
       THEN /\ pc' = "while"
            /\ UNCHANGED <<emitted, ae_plan_events, to_submit, ae_state>>
       ELSE /\ emitted' = emitted \o [i \in 1 .. Len(ae_plan_events) |->
                                         Event("step_skipped", ae_plan_events[i])]
            /\ ae_plan_events' = <<>>
            /\ pc' = "submit"
            /\ to_submit' = steps_to_submit
            /\ ae_state' = handed_out(get_steps_to_execute)
    /\ UNCHANGED <<planVars, ae_interrupted, stopping, step_results,
                   step_errors, scan, results_to_pop, handles, interrupts,
                   tick, outcome>>

PlanEvents ==
    /\ pc = "plan_events"
    /\ emitted' = emitted \o [i \in 1 .. Len(ae_plan_events) |->
                                 Event("step_skipped", ae_plan_events[i])]
    /\ ae_plan_events' = <<>>
    /\ IF skip_submission
       THEN /\ pc' = "while"
            /\ UNCHANGED <<to_submit, ae_state>>
       ELSE /\ pc' = "submit"
            /\ to_submit' = steps_to_submit
            /\ ae_state' = handed_out(get_steps_to_execute)
    /\ UNCHANGED <<planVars, ae_interrupted, stopping, step_results,
                   step_errors, scan, results_to_pop, handles, interrupts,
                   tick, outcome>>

(***************************************************************************)
(* Lines 127-159: one pass of the submission loop.                         *)
(***************************************************************************)
NewHandle(k) == [key |-> k, state |-> "pending", revokes |-> 0, fetches |-> 0]

\* faulty variant of SubmitStep: the error of step_execution_fn is reported
\* but not re-raised, and the submission loop goes on to the next step
SubmitStep_not_reraised ==
    /\ pc = "submit"
    /\ to_submit # <<>>
    /\ LET k == Head(to_submit)
       IN  \E raises \in BOOLEAN :
              IF raises
              THEN /\ emitted' = emitted \o <<Event("submitting", k),
                                             Event("engine_error", k)>>
                   /\ to_submit' = Tail(to_submit)
                   /\ UNCHANGED <<handles, step_results, pc, outcome>>
              ELSE /\ emitted' = Append(emitted, Event("submitting", k))
                   /\ handles' = Append(handles, NewHandle(k))
                   /\ step_results' = DictSet(step_results, k, Len(handles) + 1)
                   /\ to_submit' = Tail(to_submit)
                   /\ UNCHANGED <<pc, outcome>>
    /\ UNCHANGED <<planVars, trackerVars, stopping, step_errors, scan,
                   results_to_pop, interrupts, tick>>

SubmitStep ==
    /\ pc = "submit"
    /\ to_submit # <<>>
    /\ LET k == Head(to_submit)
       IN  \E raises \in BOOLEAN :
              IF raises
              THEN /\ emitted' = emitted \o <<Event("submitting", k),
                                             Event("engine_error", k)>>
                   /\ Ended("raised_submit", {k})
                   /\ UNCHANGED <<handles, step_results, to_submit>>
              ELSE /\ emitted' = Append(emitted, Event("submitting", k))
                   /\ handles' = Append(handles, NewHandle(k))
                   /\ step_results' = DictSet(step_results, k, Len(handles) + 1)
                   /\ to_submit' = Tail(to_submit)
                   /\ UNCHANGED <<pc, outcome>>
    /\ UNCHANGED <<planVars, trackerVars, stopping, step_errors, scan,
                   results_to_pop, interrupts, tick>>

SubmitDone ==
    /\ pc = "submit"
    /\ to_submit = <<>>
    /\ pc' = "sleep"
    /\ UNCHANGED <<planVars, trackerVars, stopping, step_results, step_errors,
                   scan, results_to_pop, to_submit, handles, emitted,
                   interrupts, tick, outcome>>

\* line 161
Sleep ==
    /\ pc = "sleep"
    /\ pc' = "while"
    /\ tick' = [tick EXCEPT !.slept = TRUE]
    /\ UNCHANGED <<planVars, trackerVars, stopping, step_results, step_errors,
                   scan, results_to_pop, to_submit, handles, emitted,
                   interrupts, outcome>>

(***************************************************************************)
(* Lines 163-174: after the loop.                                          *)
(***************************************************************************)
AfterLoop ==
    /\ pc = "after_loop"
    /\ IF step_errors # {}
       THEN Ended("raised_aggregate", step_errors)
       ELSE Ended("returned", {})
    /\ UNCHANGED <<planVars, trackerVars, stopping, step_results, step_errors,
                   scan, results_to_pop, to_submit, handles, emitted,
                   interrupts, tick>>

LoopStep ==
    \/ LoopTest
    \/ CheckInterrupts
    \/ PollResult
    \/ PollDone
    \/ PopResult
    \/ PopDone
    \/ PlanEvents
    \/ SubmitStep
    \/ SubmitDone
    \/ Sleep
    \/ AfterLoop

Next == LoopStep

Spec == Init /\ [][Next]_vars

(***************************************************************************)
(* Liveness is checked for runs in which the generator is always resumed   *)
(* and every handle that is polled again and again is eventually found     *)
(* ready.  The priorities only order the scan and the submissions, so      *)
(* these runs take the tag cases without a run tag.                        *)
(***************************************************************************)
PollReady == \E o \in Outcomes : Poll(o)

LiveInit == Init /\ run_tag = NoTag

FairSpec ==
    LiveInit /\ [][Next]_vars /\ WF_vars(LoopStep) /\ SF_vars(PollReady)

(***************************************************************************)
(* Observations used by the properties.                                    *)
(***************************************************************************)
\* how many times step_execution_fn has been called for step key k
CallsOf(k) ==
    Cardinality({h \in 1 .. Len(handles) : handles[h].key = k})
    + (IF outcome.kind = "raised_submit" /\ k \in outcome.keys THEN 1 ELSE 0)

\* the keys step_execution_fn returned a handle for in the current iteration
SubmittedThisTick ==
    [i \in 1 .. (Len(handles) - tick.base) |-> handles[tick.base + i].key]

\* the transitive upstream closure of step a (edges go from lower to higher)
RECURSIVE Upstream(_)
Upstream(a) == deps[a] \cup UNION {Upstream(u) : u \in deps[a]}

\* the generator left the while loop (it did not raise from inside it)
LeftLoop == pc = "after_loop" \/ outcome.kind \in {"returned", "raised_aggregate"}

\* the handles whose fetch has returned or raised
Fetched(o) ==
    {h \in 1 .. Len(handles) : handles[h].fetches > 0 /\ handles[h].state = o}

\* the Celery priority of _get_step_priority, lines 177-184
get_step_priority(k) ==
    get_run_priority(run_tag) + step_priority(step_tags[k])

(***************************************************************************)
(* C1.  A step is submitted (step_execution_fn is called for it) only in a *)
(* state in which every upstream step of it is succeeded in the tracker.   *)
(***************************************************************************)
C1_SubmittedOnlyAfterUpstreamSucceeded ==
    [][\A k \in Steps :
          CallsOf(k)' > CallsOf(k)
              => \A u \in deps[k] : ae_state[u] = "succeeded"]_vars

\* a step with two upstream steps has been submitted
C1_Witness ==
    \E h \in 1 .. Len(handles) : Cardinality(deps[handles[h].key]) = 2

(***************************************************************************)
(* C2.  step_execution_fn is called at most once per step key over the     *)
(* whole run, so no entry of step_results is overwritten.                  *)
(***************************************************************************)
C2_NoStepSubmittedTwice == \A k \in Steps : CallsOf(k) <= 1

\* every step of a plan with dependencies has been submitted
C2_Witness ==
    /\ \A k \in Steps : CallsOf(k) = 1
    /\ deps[3] # {}

(***************************************************************************)
(* C3.  If step a depends, directly or transitively, on step b and b is    *)
(* failed, then a is skipped, and a was never handed out or submitted.     *)
(***************************************************************************)
C3_FailedUpstreamSkipsDownstream ==
    \A a \in Steps : \A b \in Upstream(a) :
        ae_state[b] = "failed"
            => /\ ae_state[a] = "skipped"
               /\ CallsOf(a) = 0

\* the run is over, step 1 failed and step 3 depends on it through step 2
C3_Witness ==
    /\ pc = "end"
    /\ ae_state[1] = "failed"
    /\ Event("step_failure", 1) \in Range(emitted)
    /\ deps[2] = {1} /\ deps[3] = {2}
    /\ ae_state[3] = "skipped"

(***************************************************************************)
(* C4.  Once the loop is draining (stopping) or a step error is recorded,  *)
(* step_execution_fn is never called again.                                *)
(***************************************************************************)
C4_NoSubmissionOnceDrainingOrFailed ==
    [][(stopping \/ step_errors # {})
          => \A k \in Steps : CallsOf(k)' = CallsOf(k)]_vars

\* an iteration went past line 119 with an error recorded although a step
\* was ready to execute
C4_Witness ==
    /\ pc = "while"
    /\ tick.started
    /\ step_errors # {}
    /\ ~stopping
    /\ \E s \in Steps : ae_state[s] = "ready"

(***************************************************************************)
(* C5.  When the run ends with the aggregate failure, the failure names    *)
(* exactly the keys whose fetch raised an error other than a revocation,   *)
(* no handle is outstanding, and the events of every fetch that returned   *)
(* normally have been yielded.                                             *)
(***************************************************************************)
C5_AggregateNamesExactlyTheFailedFetches ==
    outcome.kind = "raised_aggregate"
        => /\ outcome.keys = {handles[h].key : h \in Fetched("error")}
           /\ step_results = <<>>
           /\ \A h \in 1 .. Len(handles) : handles[h].state # "pending"
           /\ \A o \in {"success", "failure"} : \A h \in Fetched(o) :
                 step_events(handles[h].key, o)[1] \in Range(emitted)

\* the aggregate failure was raised for two keys after a third step succeeded
C5_Witness ==
    /\ outcome.kind = "raised_aggregate"
    /\ Cardinality(outcome.keys) = 2
    /\ Fetched("success") # {}

(***************************************************************************)
(* C6.  Once a step error is recorded, and no interrupt is observed, the   *)
(* run eventually ends with the aggregate failure.  Stated for the tracker *)
(* most favourable to it, the one whose verify_complete forces the step    *)
(* to failed; the other two never let such a run reach line 163.           *)
(***************************************************************************)
C6_StepErrorLeadsToAggregateFailure ==
    (step_errors # {} /\ verify_mode = "mark_failed")
        ~> (outcome.kind = "raised_aggregate" \/ stopping)

(***************************************************************************)
(* C7.  revoke is invoked at most once on each handle.                     *)
(***************************************************************************)
C7_RevokedAtMostOnce ==
    \A h \in 1 .. Len(handles) : handles[h].revokes <= 1

(***************************************************************************)
(* C8.  As claimed: the loop is left only with the tracker complete and no *)
(* handle outstanding.                                                     *)
(***************************************************************************)
C8_LeftOnlyWhenComplete ==
    LeftLoop => is_complete /\ step_results = <<>>

(***************************************************************************)
(* C8, amended.  The loop is left only with no handle outstanding, and     *)
(* with the tracker complete unless an interrupt was observed (stopping).  *)
(***************************************************************************)
C8_LeftOnlyWhenCompleteOrStopping ==
    LeftLoop => step_results = <<>> /\ (is_complete \/ stopping)

\* the loop was left after an interrupt while a step was still not terminal
C8_Witness ==
    /\ LeftLoop
    /\ stopping
    /\ \E s \in Steps : ae_state[s] \notin Terminal

(***************************************************************************)
(* C9.  Once an interrupt has been observed the generator eventually ends, *)
(* also when the step of a revoked handle stays in-flight in the tracker.  *)
(***************************************************************************)
C9_DrainingTerminates == stopping ~> (pc = "end")

\* the generator returned after an interrupt, and the step of a handle
\* whose fetch reported the revocation is still in-flight in the tracker
C9_Witness ==
    /\ outcome.kind = "returned"
    /\ stopping
    /\ \E h \in Fetched("revoked") :
          /\ handles[h].revokes > 0
          /\ ae_state[handles[h].key] = "in_flight"

(***************************************************************************)
(* C10.  The steps submitted in one iteration are submitted in             *)
(* non-increasing order of step priority plus run priority, and the steps  *)
(* still to be submitted in it have no higher priority than those          *)
(* submitted; with step tags 5, 1, 10 and no run tag, three steps          *)
(* submitted in one iteration are submitted in the order 10, 5, 1.         *)
(***************************************************************************)
C10_Example == <<Tag(<<"5">>), Tag(<<"1">>), Tag(<<"1", "0">>)>>

MaxTagLen == 2

\* a sign, a second sign, two digits (one of them the zero) and a letter
RunTagChars == {"-", "+", "0", "3", "h"}

RunTagValues == UNION {[1 .. n -> RunTagChars] : n \in 0 .. MaxTagLen}

RunTags == {NoTag} \cup {Tag(s) : s \in RunTagValues}

RunTagInit ==
    /\ deps = [s \in Steps |-> IF s = 1 THEN {} ELSE {s - 1}]
    /\ step_tags = <<Tag(<<"5">>), NoTag, Tag(<<"1">>)>>
    /\ run_tag \in RunTags
    /\ verify_mode \in VerifyModes
    /\ pc = "while"
    /\ stopping = FALSE
    /\ step_results = <<>>
    /\ step_errors = {}
    /\ scan = <<>>
    /\ results_to_pop = <<>>
    /\ to_submit = <<>>
    /\ ae_state = start_state(deps)
    /\ ae_plan_events = <<>>
    /\ ae_interrupted = FALSE
    /\ handles = <<>>
    /\ emitted = <<>>
    /\ interrupts = 0
    /\ tick = NewTick
    /\ outcome = [kind |-> "running", keys |-> {}]

RunTagSpec == RunTagInit /\ [][Next]_vars

\* the decimal digit d as a character
DigitChar(d) ==
    CASE d = 0 -> "0" [] d = 1 -> "1" [] d = 2 -> "2" [] d = 3 -> "3"
      [] d = 4 -> "4" [] d = 5 -> "5" [] d = 6 -> "6" [] d = 7 -> "7"
      [] d = 8 -> "8" [] d = 9 -> "9"

RECURSIVE PyStr(_)
\* Python's str(n) of an integer n
PyStr(n) ==
    IF n < 0 THEN <<"-">> \o PyStr(0 - n)
    ELSE IF n < 10 THEN <<DigitChar(n)>>
    ELSE PyStr(n \div 10) \o <<DigitChar(n % 10)>>

RECURSIVE StripZeros(_)
\* a digit string without its leading zeros (the last digit stays)
StripZeros(s) ==
    IF Len(s) > 1 /\ s[1] = "0" THEN StripZeros(Tail(s)) ELSE s

\* s is an integer literal int() accepts: decimal digits after at most one sign
IsIntLiteral(s) ==
    \E sign \in {<<>>, <<"-">>, <<"+">>} :
       /\ Len(s) > Len(sign)
       /\ SubSeq(s, 1, Len(sign)) = sign
       /\ \A i \in (Len(sign) + 1) .. Len(s) : s[i] \in Digits

\* the literal s the way str() writes its value: no plus sign, no leading
\* zeros, no minus sign before zero
CanonicalLiteral(s) ==
    LET signed == s[1] \in {"-", "+"}
        body == StripZeros(IF signed THEN Tail(s) ELSE s)
    IN  IF s[1] = "-" /\ body # <<"0">> THEN <<"-">> \o body ELSE body

(***************************************************************************)
(* C11.  _get_run_priority returns 0 when the run-priority tag is absent   *)
(* and when its value is not an integer literal (it does not raise: the    *)
(* ValueError of int() is the only failure, and it resolves to 0); when    *)
(* the value is the literal of an integer n it returns n, so that str(n)   *)
(* is the literal in canonical form.  E.g. "hi", "", "-" resolve to 0,     *)
(* "-3" to -3, "+3" and "03" to 3.                                         *)
(***************************************************************************)
C11_RunPriorityOfTag ==
    LET n == get_run_priority(run_tag)
    IN  /\ ~run_tag.has => n = 0
        /\ (run_tag.has /\ ~IsIntLiteral(run_tag.val)) => n = 0
        /\ (run_tag.has /\ IsIntLiteral(run_tag.val))
              => PyStr(n) = CanonicalLiteral(run_tag.val)
        /\ run_tag \in {Tag(<<"h">>), Tag(<<>>), Tag(<<"-">>),
                        Tag(<<"3", "h">>), Tag(<<"-", "+">>)} => n = 0
        /\ run_tag = Tag(<<"-", "3">>) => n = 0 - 3
        /\ run_tag \in {Tag(<<"+", "3">>), Tag(<<"0", "3">>)} => n = 3
        /\ run_tag = Tag(<<"3", "0">>) => n = 30

\* a step was submitted (its priority computed) in a run whose run tag is
\* present and is not an integer literal
C11_Witness ==
    /\ run_tag.has
    /\ ~PyInt(run_tag.val).ok
    /\ Len(run_tag.val) = MaxTagLen
    /\ handles # <<>>
    /\ get_step_priority(handles[1].key) = 5

\* how many events of the given type the sequence of events holds
EventsOfType(seq, type) ==
    Cardinality({i \in 1 .. Len(seq) : seq[i].type = type})

(***************************************************************************)
(* C12.  The step in which step_execution_fn raises emits exactly one      *)
(* fatal engine event, as the last event, and ends the generator with the  *)
(* submission error in that same iteration (before its sleep), with no     *)
(* step error recorded; the fatal event is emitted in no other step; and   *)
(* nothing happens after it: the steps still to be submitted in that       *)
(* iteration get no handle, and no handle is polled or fetched.            *)
(***************************************************************************)
C12_SubmissionErrorIsFatal ==
    [][/\ (\E k \in Steps : CallsOf(k)' > CallsOf(k) /\ handles' = handles)
            <=> outcome'.kind = "raised_submit"
       /\ outcome'.kind = "raised_submit"
            => /\ EventsOfType(emitted', "engine_error") = 1
               /\ Last(emitted').type = "engine_error"
               /\ pc' = "end"
               /\ tick' = tick /\ tick.started /\ ~tick.slept
               /\ step_errors' = {}
               /\ handles' = handles /\ step_results' = step_results
               /\ \A k \in Range(Tail(to_submit')) : CallsOf(k)' = 0
       /\ EventsOfType(emitted', "engine_error")
              > EventsOfType(emitted, "engine_error")
            => outcome'.kind = "raised_submit"
       /\ outcome.kind # "raised_submit"]_vars

\* the submission of a step raised when an earlier step of the iteration had
\* been submitted and a later one was still to be submitted
C12_Witness ==
    /\ outcome.kind = "raised_submit"
    /\ Len(to_submit) = 2
    /\ step_results # <<>>
    /\ \A h \in 1 .. Len(handles) : handles[h].state = "pending"

\* handle h is a value of step_results (it is outstanding)
Outstanding(h) == \E i \in 1 .. Len(step_results) : step_results[i].h = h

ListedChange(s) ==
    LET a == ae_state[s]
        b == ae_state'[s]
    IN  \/ /\ a = "not_ready" /\ b = "ready"
           /\ \A u \in deps[s] : ae_state'[u] = "succeeded"
        \/ /\ a = "ready" /\ b = "in_flight"
           /\ pc = "plan_events"
           /\ s \in Range(to_submit')
        \/ /\ a = "in_flight" /\ b = "succeeded"
           /\ emitted' = Append(emitted, Event("step_success", s))
        \/ /\ a = "in_flight" /\ b = "failed"
           /\ emitted' = Append(emitted, Event("step_failure", s))
        \/ /\ a = "not_ready" /\ b = "skipped"
           /\ \E u \in deps[s] : ae_state'[u] \in {"failed", "skipped"}

\* verify_complete (line 112) forces step s, whose handle was fetched without
\* a result event, from in-flight to failed
ForcedToFailed(s) ==
    /\ ae_state[s] = "in_flight" /\ ae_state'[s] = "failed"
    /\ pc = "pop"
    /\ s = Head(results_to_pop)
    /\ \E h \in Fetched("revoked") \cup Fetched("error") : handles[h].key = s
    /\ emitted' = emitted

C16_EveryIterationSleeps ==
    (pc = "while" /\ tick.started) => tick.slept

\* the iteration is past line 116 (or the loop was left, or a submission
\* raised): the skip events of this iteration have been handed on
PastPlanEvents ==
    \/ pc \in {"submit", "sleep"}
    \/ pc = "while" /\ tick.started
    \/ LeftLoop
    \/ outcome.kind = "raised_submit"

(***************************************************************************)
(* C17.  The skip events of the tracker are handed on in the step of each  *)
(* iteration that follows the removal of the settled handles and precedes  *)
(* the test of line 119, and only there: in that step no key is left to    *)
(* pop and no fetched handle is outstanding; after it, in every mode, none *)
(* is left in the tracker and every skipped step has had its skip event    *)
(* yielded, once, in particular when the loop is left.                     *)
(***************************************************************************)
C17_SkipEventsDrainedEveryIteration ==
    [][/\ pc = "plan_events"
            => /\ results_to_pop = <<>>
               /\ \A h \in 1 .. Len(handles) :
                     handles[h].fetches > 0 => ~Outstanding(h)
               /\ ae_plan_events' = <<>>
       /\ EventsOfType(emitted', "step_skipped")
              # EventsOfType(emitted, "step_skipped")
            => pc = "plan_events"
       /\ PastPlanEvents'
            => /\ ae_plan_events' = <<>>
               /\ \A s \in Steps :
                     Cardinality({i \in 1 .. Len(emitted') :
                                     emitted'[i] = Event("step_skipped", s)})
                         = IF ae_state'[s] = "skipped" THEN 1 ELSE 0]_vars

\* the loop was left after a draining iteration handed on a skip event
C17_Witness ==
    /\ LeftLoop
    /\ stopping
    /\ Last(emitted).type = "step_skipped"
    /\ EventsOfType(emitted, "interrupted") > 0

(***************************************************************************)
(* C18.  The step in which the loop starts draining comes before every     *)
(* poll of its iteration (all outstanding handles are still to be          *)
(* scanned); it yields the cancellation notice, marks the tracker          *)
(* interrupted and calls revoke once on every outstanding handle and on no *)
(* other.  While draining, a handle found ready with a normal outcome      *)
(* still has its event yielded and fed to the tracker.                     *)
(***************************************************************************)
C18_InterruptRevokesBeforePolling ==
    [][/\ (~stopping /\ stopping')
            => /\ pc = "interrupt" /\ pc' = "poll"
               /\ emitted' = Append(emitted, Event("interrupted", 0))
               /\ ae_interrupted'
               /\ Len(handles') = Len(handles)
               /\ \A h \in 1 .. Len(handles) :
                     /\ handles'[h].revokes
                           = handles[h].revokes + (IF Outstanding(h) THEN 1 ELSE 0)
                     /\ handles'[h].fetches = handles[h].fetches
                     /\ Outstanding(h) => \E i \in 1 .. Len(scan') : scan'[i].h = h
       /\ \A h \in 1 .. Len(handles) :
             (stopping /\ handles[h].state = "pending"
                 /\ handles'[h].state \in {"success", "failure"})
                => LET k == handles[h].key
                       type == IF handles'[h].state = "success"
                               THEN "step_success" ELSE "step_failure"
                   IN  /\ emitted' = Append(emitted, Event(type, k))
                       /\ ae_state[k] = "in_flight"
                       /\ ae_state'[k] = IF type = "step_success"
                                         THEN "succeeded" ELSE "failed"]_vars

\* in the iteration of the first interrupt, after its revocation, a handle
\* was found ready with its step's success, and the tracker has the step
\* succeeded
C18_Witness ==
    /\ interrupts = 1
    /\ pc = "poll"
    /\ EventsOfType(emitted, "interrupted") = 1
    /\ \E h \in Fetched("success") :
          /\ handles[h].revokes = 1
          /\ Outstanding(h)
          /\ Last(emitted) = Event("step_success", handles[h].key)
          /\ ae_state[handles[h].key] = "succeeded"
    /\ Len(emitted) > 1
    /\ emitted[Len(emitted) - 1].type = "interrupted"

C20_OutstandingHandlesAreTheInFlightSteps ==
    /\ (pc = "while" /\ tick.started)
          => DictKeys(step_results) = {s \in Steps : ae_state[s] = "in_flight"}
    /\ (pc = "pop" /\ results_to_pop # <<>>
            /\ Head(results_to_pop) \in DictKeys(step_results))
          => ae_state[Head(results_to_pop)] \in Terminal

====
